---- MODULE Spec2Model ----
(***************************************************************************)
(* Model of lisa/modeling/multipredictor.py (the tracked-run variant, an   *)
(* MLflow sink) and lisa/modeling/remote_multipredictor.py (the local-file *)
(* variant): classifier, regressor, _regressor_script,                     *)
(* _feature_importances and main.                                          *)
(*                                                                         *)
(* Feature matrices are opaque to the orchestration: a row of X is         *)
(* identified with the index of its row in the full dataset.  Metric       *)
(* values are opaque too; what is recorded is which metric was written to  *)
(* which run or output key.                                                *)
(***************************************************************************)
EXTENDS Integers, Sequences, FiniteSets, TLC

(* ------------------------------ bounds --------------------------------- *)

\* rows of the dataset read by main
MaxRows == 2
\* rows of a y_train / y_test column handed directly to regressor
MaxLen == 2
\* columns of X_train whose importances _feature_importances ranks
MaxFeatures == 3
\* largest raw importance value
MaxImportance == 2

(* ------------------------------- data ---------------------------------- *)

NULL == "null"
None == "None"

Variants == {"tracked", "remote"}
Families == {"LR", "RF", "LGBM"}
\* "XGB" stands for any selector outside the fixed set
Selectors == Families \cup {"XGB"}

\* "standing" stands for any non-locomotion label absent from the weight table
Labels == {"run", "jump", "walk", "standing"}
\* rank of a label in lexical (alphabetical) order
LexRank == [l \in Labels |->
              CASE l = "jump" -> 1 [] l = "run" -> 2
                [] l = "standing" -> 3 [] OTHER -> 4]

\* a SPEED / INCLINE entry: null for a non-locomotion row, else a reading
TargetValues == {NULL, "v1", "v2"}
\* main only tests the targets for null, so one reading suffices in its datasets
Rows == [ACTIVITY : Labels, SPEED : {NULL, "v1"}, INCLINE : {NULL, "v1"}]

RECURSIVE SeqsUpTo(_, _)
SeqsUpTo(S, n) ==
    IF n = 0 THEN {<<>>}
    ELSE LET shorter == SeqsUpTo(S, n - 1)
         IN  shorter \cup {Append(s, x) : s \in {t \in shorter : Len(t) = n - 1}, x \in S}

Range(s) == {s[i] : i \in 1..Len(s)}

\* the indices of set T in increasing order
RECURSIVE Ascending(_)
Ascending(T) ==
    IF T = {} THEN <<>>
    ELSE LET m == CHOOSE x \in T : \A y \in T : x <= y
         IN  <<m>> \o Ascending(T \ {m})

(* --------------------------- hyperparameters --------------------------- *)

\* dict.setdefault(key, value): an existing key keeps its value
SetDefaultOverwrites(params, key, value) ==
    [k \in DOMAIN params \cup {key} |-> IF k = key THEN value ELSE params[k]]

setdefault(params, key, value) ==
    IF key \in DOMAIN params THEN params
    ELSE [k \in DOMAIN params \cup {key} |-> IF k = key THEN value ELSE params[k]]

EmptyParams == [k \in {} |-> 0]

\* keyword arguments each constructor accepts; LGBMModel.__init__ takes **kwargs
ParamKeys == {"n_jobs", "random_state", "n_estimators", "max_depth", "class_weight"}
AcceptedParams(kind, model_name) ==
    CASE kind = "classify" /\ model_name = "LR" -> {"n_jobs", "random_state", "class_weight"}
      [] kind = "classify" /\ model_name = "RF" -> ParamKeys
      [] kind = "regress" /\ model_name = "LR" -> {"n_jobs"}
      [] kind = "regress" /\ model_name = "RF" ->
            {"n_jobs", "random_state", "n_estimators", "max_depth"}
      [] OTHER -> ParamKeys

ClassifierParams(params) ==
    setdefault(setdefault(params, "n_jobs", -1), "random_state", 42)

RegressorParams(variant, model_name, params) ==
    LET p1 == IF model_name # "LR" THEN setdefault(params, "random_state", 42) ELSE params
        p2 == IF model_name = "RF"
              THEN setdefault(setdefault(p1, "n_estimators", 10), "max_depth", 10)
              ELSE p1
        p3 == setdefault(p2, "n_jobs", -1)
    IN  IF variant = "tracked" THEN setdefault(p3, "class_weight", "balanced") ELSE p3

(* -------------------------- sample conditioning ------------------------ *)

\* class_weights = {"run": 1/0.4, "jump": 1/0.024, "walk": 1/0.576}, held as
\* the exact fraction <<numerator, denominator>> = 1000 / (1000 * frequency)
class_weights ==
    [l \in {"run", "jump", "walk"} |->
        CASE l = "run" -> <<1000, 400>> [] l = "jump" -> <<1000, 24>> [] OTHER -> <<1000, 576>>]

\* np.array([class_weights[label] for label in y_train]); a label outside
\* the table raises KeyError at the first such row
SampleWeightSkipsUnknown(y_train) ==
    LET known == Ascending({i \in 1..Len(y_train) : y_train[i] \in DOMAIN class_weights})
    IN  [status |-> "ok", value |-> [j \in 1..Len(known) |-> class_weights[y_train[known[j]]]]]

SampleWeightDefaultsUnknown(y_train) ==
    [status |-> "ok",
     value |-> [i \in 1..Len(y_train) |->
                  IF y_train[i] \in DOMAIN class_weights THEN class_weights[y_train[i]]
                  ELSE <<1, 1>>]]

SampleWeight(y_train) ==
    IF \E i \in 1..Len(y_train) : y_train[i] \notin DOMAIN class_weights
    THEN [status |-> "KeyError:label", value |-> <<>>]
    ELSE [status |-> "ok", value |-> [i \in 1..Len(y_train) |-> class_weights[y_train[i]]]]

(* ------------------------- model backend adapter ----------------------- *)

\* the estimator class each dispatch table ("models") entry constructs
EstimatorName(kind, model_name) ==
    CASE kind = "classify" /\ model_name = "LR" -> "OneVsRestClassifier(LogisticRegression)"
      [] kind = "classify" /\ model_name = "RF" -> "RandomForestClassifier"
      [] kind = "classify" /\ model_name = "LGBM" -> "LGBMClassifier"
      [] kind = "regress" /\ model_name = "LR" -> "LinearRegression"
      [] kind = "regress" /\ model_name = "RF" -> "RandomForestRegressor"
      [] OTHER -> "LGBMRegressor"

\* result of a classifier call: the exception raised, or "ok" and the fitted
\* model; sample_weight is the vector built before dispatch, constructed the
\* estimator object created (None: none), fit_called whether a fit call that
\* takes the weights was reached, fit_weight the sample_weight it received,
\* fitted whether the estimator (for one-vs-rest: every binary sub-estimator)
\* came out fitted with those weights
ClassifierResult(status, params, weight, constructed, fit_called, fitted) ==
    [status |-> status, params |-> params, sample_weight |-> weight,
     constructed |-> constructed, fit_called |-> fit_called,
     fit_weight |-> IF fit_called THEN weight ELSE <<>>, fitted |-> fitted]

\* multipredictor.classifier: the weights are built, then models[model_name]
\* is looked up, constructed and fitted with sample_weight.
\* OneVsRestClassifier.fit takes no sample_weight: the keyword is rejected
\* (TypeError, or ValueError where fit accepts **fit_params without metadata
\* routing enabled) before any sub-estimator is fitted.
classifier_tracked(model_name, y_train, params) ==
    LET p  == ClassifierParams(params)
        sw == SampleWeight(y_train)
        name == EstimatorName("classify", model_name)
    IN  IF sw.status # "ok"
        THEN ClassifierResult(sw.status, p, <<>>, None, FALSE, FALSE)
        ELSE IF model_name \notin Families
        THEN ClassifierResult("KeyError:model", p, sw.value, None, FALSE, FALSE)
        ELSE IF ~(DOMAIN p \subseteq AcceptedParams("classify", model_name))
        THEN ClassifierResult("TypeError:params", p, sw.value, None, FALSE, FALSE)
        ELSE IF model_name = "LR"
        THEN ClassifierResult("Error:fit_sample_weight", p, sw.value, name, TRUE, FALSE)
        ELSE IF Len(y_train) = 0
        THEN ClassifierResult("ValueError:fit", p, sw.value, name, TRUE, FALSE)
        ELSE ClassifierResult("ok", p, sw.value, name, TRUE, TRUE)

\* remote_multipredictor.classifier: for "LR" the one-vs-rest wrapper is
\* constructed and its estimators_ attribute is read before any fit; the
\* attribute exists only on a fitted wrapper, so the read raises
\* AttributeError.
classifier_remote(model_name, y_train, params) ==
    LET p  == ClassifierParams(params)
        sw == SampleWeight(y_train)
        name == EstimatorName("classify", model_name)
    IN  IF sw.status # "ok"
        THEN ClassifierResult(sw.status, p, <<>>, None, FALSE, FALSE)
        ELSE IF model_name = "LR"
        THEN IF ~(DOMAIN p \subseteq AcceptedParams("classify", model_name))
             THEN ClassifierResult("TypeError:params", p, sw.value, None, FALSE, FALSE)
             ELSE ClassifierResult("AttributeError:estimators_", p, sw.value, name, FALSE, FALSE)
        ELSE IF model_name \notin Families
        THEN ClassifierResult("KeyError:model", p, sw.value, None, FALSE, FALSE)
        ELSE IF ~(DOMAIN p \subseteq AcceptedParams("classify", model_name))
        THEN ClassifierResult("TypeError:params", p, sw.value, None, FALSE, FALSE)
        ELSE IF Len(y_train) = 0
        THEN ClassifierResult("ValueError:fit", p, sw.value, name, TRUE, FALSE)
        ELSE ClassifierResult("ok", p, sw.value, name, TRUE, TRUE)

classifier(variant, model_name, y_train, params) ==
    IF variant = "tracked" THEN classifier_tracked(model_name, y_train, params)
    ELSE classifier_remote(model_name, y_train, params)

\* Series.is_not_null()
is_not_null(y) == [i \in 1..Len(y) |-> y[i] # NULL]

\* DataFrame.filter(mask): the rows whose mask entry is true, in order
FilterIgnoresMask(frame, mask) == frame

filter(frame, mask) ==
    LET keep == Ascending({i \in 1..Len(frame) : mask[i]})
    IN  [j \in 1..Len(keep) |-> frame[keep[j]]]

\* result of a regressor call: fit_called / predict_called tell whether
\* model.fit / model.predict were reached, fit_X, fit_y and pred_X the rows
\* they received
RegressorResult(status, params, model, fit_called, fit_X, fit_y, predict_called, pred_X, y_test_filtered) ==
    [status |-> status, params |-> params, model |-> model,
     fit_called |-> fit_called, fit_X |-> fit_X, fit_y |-> fit_y,
     predict_called |-> predict_called, pred_X |-> pred_X,
     y_test_filtered |-> y_test_filtered]

\* regressor (both variants; only the tracked one adds class_weight):
\* defaults, dispatch and construction, then the train rows are filtered by
\* the train mask and fitted, the test rows by the test mask and predicted.
\* Fitting or predicting on zero rows raises ValueError.
regressor(variant, model_name, X_train, X_test, y_train, y_test, params) ==
    LET p == RegressorParams(variant, model_name, params)
        name == EstimatorName("regress", model_name)
        train_non_null_mask == is_not_null(y_train)
        X_train_filtered == filter(X_train, train_non_null_mask)
        y_train_filtered == filter(y_train, train_non_null_mask)
        test_non_null_mask == is_not_null(y_test)
        X_test_filtered == filter(X_test, test_non_null_mask)
        y_test_filtered == filter(y_test, test_non_null_mask)
    IN  IF model_name \notin Families
        THEN RegressorResult("KeyError:model", p, None, FALSE, <<>>, <<>>, FALSE, <<>>, <<>>)
        ELSE IF ~(DOMAIN p \subseteq AcceptedParams("regress", model_name))
        THEN RegressorResult("TypeError:params", p, None, FALSE, <<>>, <<>>, FALSE, <<>>, <<>>)
        ELSE IF Len(X_train_filtered) = 0
        THEN RegressorResult("ValueError:fit", p, name, TRUE, X_train_filtered,
                             y_train_filtered, FALSE, <<>>, <<>>)
        ELSE IF Len(X_test_filtered) = 0
        THEN RegressorResult("ValueError:predict", p, name, TRUE, X_train_filtered,
                             y_train_filtered, TRUE, X_test_filtered, y_test_filtered)
        ELSE RegressorResult("ok", p, name, TRUE, X_train_filtered, y_train_filtered,
                             TRUE, X_test_filtered, y_test_filtered)

(* -------------------------- diagnostics extractor ---------------------- *)

\* an ordered mapping (a dict in insertion order) is a sequence of
\* <<key, value>> pairs with distinct keys; d[key] = value overwrites in place
DictPut(d, key, value) ==
    IF \E i \in 1..Len(d) : d[i][1] = key
    THEN LET i == CHOOSE j \in 1..Len(d) : d[j][1] = key
         IN  [d EXCEPT ![i] = <<key, value>>]
    ELSE Append(d, <<key, value>>)

RECURSIVE DictFromPairs(_)
DictFromPairs(pairs) ==
    IF pairs = <<>> THEN <<>>
    ELSE DictPut(DictFromPairs(SubSeq(pairs, 1, Len(pairs) - 1)),
                 pairs[Len(pairs)][1], pairs[Len(pairs)][2])

\* sorted(items, key=lambda item: item[1], reverse=True): a stable sort, equal
\* values keep their relative order
RECURSIVE SortedAscending(_)
SortedAscending(items) ==
    IF items = <<>> THEN <<>>
    ELSE LET i == CHOOSE j \in 1..Len(items) :
                    /\ \A k \in 1..Len(items) : items[j][2] <= items[k][2]
                    /\ \A k \in 1..(j - 1) : items[k][2] # items[j][2]
         IN  <<items[i]>> \o
             SortedAscending(SubSeq(items, 1, i - 1) \o SubSeq(items, i + 1, Len(items)))

RECURSIVE sorted_reverse(_)
sorted_reverse(items) ==
    IF items = <<>> THEN <<>>
    ELSE LET i == CHOOSE j \in 1..Len(items) :
                    /\ \A k \in 1..Len(items) : items[j][2] >= items[k][2]
                    /\ \A k \in 1..(j - 1) : items[k][2] # items[j][2]
         IN  <<items[i]>> \o
             sorted_reverse(SubSeq(items, 1, i - 1) \o SubSeq(items, i + 1, Len(items)))

\* the permutations np.argsort may return: indices in ascending order of
\* value; the order among equal values is not specified (default quicksort)
IndexPermutations(n) == {p \in [1..n -> 1..n] : \A i, j \in 1..n : i # j => p[i] # p[j]}
argsort(values) ==
    {p \in IndexPermutations(Len(values)) :
        \A i, j \in 1..Len(values) : i < j => values[p[i]] <= values[p[j]]}

\* _feature_importances: order is the np.argsort result, reversed by [::-1]
_feature_importances(feature_importances, feature_names, order) ==
    LET n == Len(feature_importances)
        indices == [i \in 1..n |-> order[n + 1 - i]]
        feature_importance_dict ==
            DictFromPairs([i \in 1..n |->
                             <<feature_names[indices[i]], feature_importances[indices[i]]>>])
    IN  sorted_reverse(feature_importance_dict)

\* Series.unique(maintain_order=True): duplicates removed, first occurrences
\* kept in source order
RECURSIVE UniqueLexical(_)
UniqueLexical(column) ==
    IF Range(column) = {} THEN <<>>
    ELSE LET m == CHOOSE x \in Range(column) : \A y \in Range(column) : LexRank[x] <= LexRank[y]
         IN  <<m>> \o UniqueLexical(SelectSeq(column, LAMBDA x : x # m))

RECURSIVE unique(_)
unique(column) ==
    IF column = <<>> THEN <<>>
    ELSE LET head == unique(SubSeq(column, 1, Len(column) - 1))
             last == column[Len(column)]
         IN  IF last \in Range(head) THEN head ELSE Append(head, last)

\* column names of X_train
AllFeatureNames == <<"f1", "f2", "f3", "f4", "f5", "f6">>
FeatureNames(n) == SubSeq(AllFeatureNames, 1, n)
ImportanceVectors == UNION {[1..n -> 0..MaxImportance] : n \in 1..MaxFeatures}

NoPath == <<>>
HistPath(variant, model_name, feature_name) ==
    IF variant = "tracked" THEN <<"ARTIFACTS_DIR", model_name, feature_name, "hist.png">>
    ELSE <<"output_dir", feature_name, "hist.png">>
\* the tracked variant formats the estimator object, not model_name, into the name
FeatureImportancesPath(variant, model_name, feature_name) ==
    IF variant = "tracked"
    THEN <<"ARTIFACTS_DIR", "feature_importances", EstimatorName("regress", model_name),
           feature_name, "json">>
    ELSE <<"output_dir", "feature_importances", feature_name, "json">>

\* result of a _regressor_script call: ret is the returned tuple, files the
\* paths written to disk, importances the mapping dumped to the json file
ScriptResult(status, reg, ret, files, importances) ==
    [status |-> status, reg |-> reg, ret |-> ret, files |-> files,
     importances |-> importances]

\* _regressor_script: the balance check only logs; regressor's exceptions
\* propagate; then the histogram is saved and, for the tree families, the
\* ranked importances.  importances and order stand for the fitted model's
\* feature_importances_ and the np.argsort result.  The tracked variant
\* returns (r2, rmse, model, y_plot_path, feature_importances_path), the
\* remote one (y_score, model).
_regressor_script(variant, model_name, feature_name, X_train, X_test, y_train, y_test, hyperparams, importances, order) ==
    LET reg == regressor(variant, model_name, X_train, X_test, y_train, y_test, hyperparams)
        y_plot_path == HistPath(variant, model_name, feature_name)
        tree == model_name = "LGBM" \/ model_name = "RF"
        sorted_feature_importance_dict ==
            IF tree
            THEN _feature_importances(importances, FeatureNames(Len(importances)), order)
            ELSE <<>>
        feature_importances_path ==
            IF tree THEN FeatureImportancesPath(variant, model_name, feature_name) ELSE NoPath
        files == {y_plot_path} \cup (IF tree THEN {feature_importances_path} ELSE {})
    IN  IF reg.status # "ok"
        THEN ScriptResult(reg.status, reg, <<>>, {}, <<>>)
        ELSE ScriptResult("ok", reg,
                          IF variant = "tracked"
                          THEN <<"r2", "rmse", reg.model, y_plot_path, feature_importances_path>>
                          ELSE <<"y_score", reg.model>>,
                          files, sorted_feature_importance_dict)

(* ------------------------------- state --------------------------------- *)

VARIABLES
    variant,       \* which file's main runs: "tracked" or "remote"
    model,         \* main's model-family selector
    save,          \* remote main's save flag
    df,            \* the full dataset, a sequence of rows
    pc,            \* position in main; "done": elapsed time logged; "raised": exception left main
    stage,         \* target of the stage in progress
    split,         \* row indices of the train and test subsets, once split
    X_state,       \* scaled_X_train / scaled_X_test: "lazy", "scaled" or "collected"
    parent_run,    \* tracked parent run: "none", "open", "FINISHED", "FAILED"
    nested_run,    \* run_name of the open nested run, or "none"
    run_events,    \* start / end events of the runs, in order
    sink_params,   \* run parameters recorded (mlflow.log_params / output["params"])
    metrics,       \* <<run or output key, metric>> pairs recorded
    artifacts,     \* <<run, path>> pairs uploaded by mlflow.log_artifact
    files,         \* paths created on disk
    clf,           \* result of main's classifier call
    cm_labels,     \* labels handed to evaluate.confusion_matrix
    error,         \* the exception that left main, or "none"
    uploads,       \* mlflow.log_artifact calls in order: <<run, path, whether it succeeded>>
    call           \* a direct call of one function: its arguments and result

vars == <<variant, model, save, df, pc, stage, split, X_state, parent_run, nested_run,
          run_events, sink_params, metrics, artifacts, files, clf, cm_labels, error,
          uploads, call>>

inputs == <<variant, model, save, df>>
runs == <<parent_run, nested_run, run_events>>

NoSplit == [X_train |-> <<>>, X_test |-> <<>>]
NotCalled == ClassifierResult("not_called", EmptyParams, <<>>, None, FALSE, FALSE)
NoCall == [fn |-> "none"]

Datasets == SeqsUpTo(Rows, MaxRows) \ {<<>>}

\* values of one label column for the rows of a subset
Column(rows, name) ==
    [i \in 1..Len(rows) |->
        CASE name = "ACTIVITY" -> df[rows[i]].ACTIVITY
          [] name = "SPEED" -> df[rows[i]].SPEED
          [] OTHER -> df[rows[i]].INCLINE]

RunName(target) ==
    CASE target = "activity" -> "activity classifier"
      [] target = "speed" -> "speed regressor"
      [] OTHER -> "incline regressor"
FeatureName(target) == IF target = "speed" THEN "Speed" ELSE "Incline"
LabelColumn(target) == IF target = "speed" THEN "SPEED" ELSE "INCLINE"

MainStart ==
    /\ pc = IF variant = "remote" THEN "mkdir" ELSE "split"
    /\ stage = "none"
    /\ split = NoSplit
    /\ X_state = "lazy"
    /\ parent_run = "none"
    /\ nested_run = "none"
    /\ run_events = <<>>
    /\ sink_params = FALSE
    /\ metrics = {}
    /\ artifacts = {}
    /\ files = {}
    /\ clf = NotCalled
    /\ cm_labels = <<>>
    /\ error = "none"
    /\ uploads = <<>>

Init ==
    /\ variant \in Variants
    /\ model \in Selectors
    /\ save \in IF variant = "remote" THEN BOOLEAN ELSE {FALSE}
    /\ df \in Datasets
    /\ MainStart
    /\ call = NoCall

\* the exception of a failed mlflow.log_artifact call (the transport's error)
UploadError == "Exception:log_artifact"

RaiseLeavesRunsOpen(exception) ==
    /\ error' = exception
    /\ pc' = "raised"
    /\ UNCHANGED <<parent_run, nested_run, run_events>>

\* an exception propagates out of main: every enclosing "with
\* mlflow.start_run" block ends its run on the way out
Raise(exception) ==
    /\ error' = exception
    /\ pc' = "raised"
    /\ nested_run' = "none"
    /\ parent_run' = IF parent_run = "open" THEN "FAILED" ELSE parent_run
    /\ run_events' = run_events
            \o (IF nested_run # "none" THEN << <<"end", nested_run>> >> ELSE <<>>)
            \o (IF parent_run = "open" THEN << <<"end", "parent">> >> ELSE <<>>)

(* ------------------------------- main ----------------------------------- *)

\* remote main: output record and output directory
MakeOutputDir ==
    /\ pc = "mkdir"
    /\ files' = files \cup {<<"output_dir">>}
    /\ pc' = "split"
    /\ UNCHANGED <<inputs, stage, split, X_state, runs, sink_params, metrics, artifacts,
                   clf, cm_labels, error, call, uploads>>

\* the splits lisa.features.sequential_stratified_split may return for n
\* rows: disjoint train and test subsets that cover the rows, each in source
\* order
sequential_stratified_split(n) ==
    {[X_train |-> Ascending(train), X_test |-> Ascending((1..n) \ train)] :
        train \in SUBSET (1..n)}

\* the dataset is scanned and split (lazily) on ACTIVITY, SPEED and INCLINE
Split ==
    /\ pc = "split"
    /\ split' \in sequential_stratified_split(Len(df))
    /\ pc' = "scale"
    /\ UNCHANGED <<inputs, stage, X_state, runs, sink_params, metrics, artifacts, files,
                   clf, cm_labels, error, call, uploads>>

\* standard_scaler for "LR", otherwise the split is collected as it is
Scale ==
    /\ pc = "scale"
    /\ X_state' = IF model = "LR" THEN "scaled" ELSE "collected"
    /\ pc' = IF variant = "tracked" THEN "start_run" ELSE "params"
    /\ UNCHANGED <<inputs, stage, split, runs, sink_params, metrics, artifacts, files,
                   clf, cm_labels, error, call, uploads>>

\* tracked main: set_tracking_uri, set_experiment, start_run, set_tag
StartParentRun ==
    /\ pc = "start_run"
    /\ parent_run' = "open"
    /\ run_events' = Append(run_events, <<"start", "parent">>)
    /\ pc' = "params"
    /\ UNCHANGED <<inputs, stage, split, X_state, nested_run, sink_params, metrics,
                   artifacts, files, clf, cm_labels, error, call, uploads>>

\* the column-name components and window / split are recorded
LogParams ==
    /\ pc = "params"
    /\ sink_params' = TRUE
    /\ stage' = "activity"
    /\ pc' = IF variant = "tracked" THEN "start_nested" ELSE "classify"
    /\ UNCHANGED <<inputs, split, X_state, runs, metrics, artifacts, files, clf,
                   cm_labels, error, call, uploads>>

\* tracked main: with mlflow.start_run(nested=True, run_name=...)
StartNestedRun ==
    /\ pc = "start_nested"
    /\ nested_run' = RunName(stage)
    /\ run_events' = Append(run_events, <<"start", RunName(stage)>>)
    /\ pc' = IF stage = "activity" THEN "classify" ELSE "regress"
    /\ UNCHANGED <<inputs, stage, split, X_state, parent_run, sink_params, metrics,
                   artifacts, files, clf, cm_labels, error, call, uploads>>

\* balance check (logged only), the label columns are collected, classifier
\* is called with hyperparams = {}
Classify ==
    /\ pc = "classify"
    /\ LET result == classifier(variant, model, Column(split.X_train, "ACTIVITY"), EmptyParams)
       IN  /\ clf' = result
           /\ IF result.status = "ok"
              THEN /\ pc' = "score"
                   /\ UNCHANGED <<runs, error>>
              ELSE Raise(result.status)
    /\ UNCHANGED <<inputs, stage, split, X_state, sink_params, metrics, artifacts, files,
                   cm_labels, call, uploads>>

\* where a metric is recorded: the open nested run, or the output record
MetricScope == IF variant = "tracked" THEN nested_run ELSE "output.score"
ClassificationMetricsWithoutWeighted ==
    IF variant = "tracked" THEN {"score", "f1_score"} ELSE {"activity"}

ClassificationMetrics ==
    IF variant = "tracked" THEN {"score", "f1_score", "f1_score_weighted"}
    ELSE {"activity", "activity_weighted"}

\* activity_model.score and predict on the test rows (ValueError on zero
\* rows), then the scores are recorded
LogClassificationMetrics ==
    /\ pc = "score"
    /\ IF Len(split.X_test) = 0
       THEN /\ Raise("ValueError:score")
            /\ UNCHANGED metrics
       ELSE /\ metrics' = metrics \cup {<<MetricScope, m>> : m \in ClassificationMetrics}
            /\ pc' = "confusion"
            /\ UNCHANGED <<runs, error>>
    /\ UNCHANGED <<inputs, stage, split, X_state, sink_params, artifacts, files, clf,
                   cm_labels, call, uploads>>

ConfusionMatrixPath ==
    IF variant = "tracked" THEN <<"ARTIFACTS_DIR", model, "confusion_matrix.png">>
    ELSE <<"output_dir", "confusion_matrix.png">>

\* the unique labels of the full dataset go to evaluate.confusion_matrix,
\* which writes the plot; the tracked variant uploads it and leaves the
\* nested run
ConfusionMatrix ==
    /\ pc = "confusion"
    /\ cm_labels' = unique([i \in 1..Len(df) |-> df[i].ACTIVITY])
    /\ files' = files \cup {ConfusionMatrixPath}
    /\ IF variant = "tracked"
       THEN \E uploaded \in BOOLEAN :
            /\ uploads' = Append(uploads, <<nested_run, ConfusionMatrixPath, uploaded>>)
            /\ IF uploaded
               THEN /\ artifacts' = artifacts \cup {<<nested_run, ConfusionMatrixPath>>}
                    /\ run_events' = Append(run_events, <<"end", nested_run>>)
                    /\ nested_run' = "none"
                    /\ stage' = "speed"
                    /\ pc' = "start_nested"
                    /\ UNCHANGED <<parent_run, error>>
               ELSE /\ Raise(UploadError)
                    /\ UNCHANGED <<artifacts, stage>>
       ELSE /\ pc' = "save_output"
            /\ UNCHANGED <<artifacts, runs, stage, error, uploads>>
    /\ UNCHANGED <<inputs, split, X_state, sink_params, metrics, clf, call>>

\* main keeps the path of the importances file, not its content, so one
\* importance vector (a single feature) stands for the fitted model's
MainImportances == <<0>>

\* tracked main, speed and incline stages: _regressor_script is called, its
\* result is unpacked into four names, the metrics and artifacts are logged
\* and the nested run is left; after the incline stage the parent run is left
Regress ==
    /\ pc = "regress"
    /\ \E importances \in {MainImportances} : \E order \in argsort(importances) :
         LET r == _regressor_script(variant, model, FeatureName(stage), split.X_train,
                                    split.X_test,
                                    Column(split.X_train, LabelColumn(stage)),
                                    Column(split.X_test, LabelColumn(stage)),
                                    EmptyParams, importances, order)
         IN  /\ files' = files \cup r.files
             /\ IF r.status # "ok"
                THEN /\ Raise(r.status)
                     /\ UNCHANGED <<metrics, artifacts, stage, uploads>>
                ELSE IF Len(r.ret) # 4
                THEN /\ Raise("ValueError:unpack")
                     /\ UNCHANGED <<metrics, artifacts, stage, uploads>>
                ELSE \E uploaded \in BOOLEAN :
                     /\ metrics' = metrics \cup {<<nested_run, m>> : m \in {"score", "rmse", "r2"}}
                     /\ uploads' = Append(uploads, <<nested_run, r.ret[3], uploaded>>)
                     /\ IF ~uploaded
                        THEN /\ Raise(UploadError)
                             /\ UNCHANGED <<artifacts, stage>>
                        ELSE /\ artifacts' = artifacts \cup {<<nested_run, r.ret[3]>>}
                                    \cup (IF r.ret[4] # NoPath THEN {<<nested_run, r.ret[4]>>}
                                          ELSE {})
                             /\ nested_run' = "none"
                             /\ error' = error
                             /\ IF stage = "speed"
                                THEN /\ stage' = "incline"
                                     /\ pc' = "start_nested"
                                     /\ run_events' = Append(run_events, <<"end", nested_run>>)
                                     /\ parent_run' = parent_run
                                ELSE /\ stage' = "none"
                                     /\ pc' = "elapsed"
                                     /\ run_events' = run_events
                                            \o << <<"end", nested_run>>, <<"end", "parent">> >>
                                     /\ parent_run' = "FINISHED"
    /\ UNCHANGED <<inputs, split, X_state, sink_params, clf, cm_labels, call>>

\* remote main: the output record is dumped to output.json
SaveOutput ==
    /\ pc = "save_output"
    /\ files' = files \cup {<<"output_dir", "output.json">>}
    /\ pc' = IF save THEN "pickle" ELSE "elapsed"
    /\ UNCHANGED <<inputs, stage, split, X_state, runs, sink_params, metrics, artifacts,
                   clf, cm_labels, error, call, uploads>>

\* remote main with save: the scaler (fitted for "LR" only) and the model
SavePickles ==
    /\ pc = "pickle"
    /\ files' = files \cup {<<"output_dir", "activity.pkl">>}
                      \cup (IF X_state = "scaled" THEN {<<"output_dir", "scaler.pkl">>} ELSE {})
    /\ pc' = "elapsed"
    /\ UNCHANGED <<inputs, stage, split, X_state, runs, sink_params, metrics, artifacts,
                   clf, cm_labels, error, call, uploads>>

\* logger.info("Time taken to run: ...")
LogElapsed ==
    /\ pc = "elapsed"
    /\ pc' = "done"
    /\ UNCHANGED <<inputs, stage, split, X_state, runs, sink_params, metrics, artifacts,
                   files, clf, cm_labels, error, call, uploads>>

Next ==
    \/ MakeOutputDir
    \/ Split
    \/ Scale
    \/ StartParentRun
    \/ LogParams
    \/ StartNestedRun
    \/ Classify
    \/ LogClassificationMetrics
    \/ ConfusionMatrix
    \/ Regress
    \/ SaveOutput
    \/ SavePickles
    \/ LogElapsed

Spec == Init /\ [][Next]_vars

(* ------------------- direct calls of the functions --------------------- *)

\* caller-supplied params: up to MaxOverrides keys, each with a value that
\* differs from the default the functions would set
MaxOverrides == 2
OverrideValue ==
    [k \in ParamKeys |->
        CASE k = "n_jobs" -> 4 [] k = "random_state" -> 7 [] k = "n_estimators" -> 50
          [] k = "max_depth" -> 3 [] OTHER -> "caller"]
CallerParams ==
    {[k \in keys |-> OverrideValue[k]] :
        keys \in {K \in SUBSET ParamKeys : Cardinality(K) <= MaxOverrides}}

LabelColumns == SeqsUpTo(Labels, MaxLen)
TargetColumns == SeqsUpTo(TargetValues, MaxLen)

\* direct calls use the state's variant and model as their first arguments
UnitInit ==
    /\ variant \in Variants
    /\ model \in Selectors
    /\ save = FALSE
    /\ df = <<[ACTIVITY |-> "walk", SPEED |-> "v1", INCLINE |-> "v1"]>>
    /\ MainStart
    /\ call = NoCall

main_vars == <<inputs, pc, stage, split, X_state, runs, sink_params, metrics, artifacts,
               files, clf, cm_labels, error, uploads>>

CallClassifier ==
    /\ call = NoCall
    /\ \E y_train \in LabelColumns, params \in CallerParams :
         call' = [fn |-> "classifier", y_train |-> y_train, params |-> params,
                  ret |-> classifier(variant, model, y_train, params)]
    /\ UNCHANGED main_vars

\* regressor's inputs: every pair of target columns with no caller params,
\* and every caller params mapping with one pair of columns
RegressorInputs ==
    {[y_train |-> a, y_test |-> b, params |-> EmptyParams] :
        a \in TargetColumns, b \in TargetColumns}
    \cup {[y_train |-> <<"v1", NULL>>, y_test |-> <<NULL, "v2">>, params |-> p] :
            p \in CallerParams}

\* X_train and X_test are the rows 1..n and n+1..n+m of one dataset
CallRegressor ==
    /\ call = NoCall
    /\ \E in \in RegressorInputs :
         LET X_train == [i \in 1..Len(in.y_train) |-> i]
             X_test == [i \in 1..Len(in.y_test) |-> Len(in.y_train) + i]
         IN  call' = [fn |-> "regressor", X_train |-> X_train, X_test |-> X_test,
                      y_train |-> in.y_train, y_test |-> in.y_test, params |-> in.params,
                      ret |-> regressor(variant, model, X_train, X_test, in.y_train,
                                        in.y_test, in.params)]
    /\ UNCHANGED main_vars

\* the ranking itself is exercised by CallFeatureImportances; here two
\* importance vectors stand for the fitted model's
ScriptImportances == {<<1>>, <<0, 1>>}

CallRegressorScript ==
    /\ call = NoCall
    /\ \E feature_name \in {"Speed", "Incline"}, y_train \in TargetColumns,
          y_test \in TargetColumns, importances \in ScriptImportances :
         \E order \in argsort(importances) :
           LET X_train == [i \in 1..Len(y_train) |-> i]
               X_test == [i \in 1..Len(y_test) |-> Len(y_train) + i]
           IN  call' = [fn |-> "_regressor_script", feature_name |-> feature_name,
                        y_train |-> y_train, y_test |-> y_test,
                        ret |-> _regressor_script(variant, model, feature_name, X_train,
                                                  X_test, y_train, y_test, EmptyParams,
                                                  importances, order)]
    /\ UNCHANGED main_vars

CallFeatureImportances ==
    /\ call = NoCall
    /\ \E importances \in ImportanceVectors : \E order \in argsort(importances) :
         call' = [fn |-> "_feature_importances", feature_importances |-> importances,
                  feature_names |-> FeatureNames(Len(importances)),
                  ret |-> _feature_importances(importances, FeatureNames(Len(importances)),
                                               order)]
    /\ UNCHANGED main_vars

UnitNext ==
    \/ CallClassifier
    \/ CallRegressor
    \/ CallRegressorScript
    \/ CallFeatureImportances

UnitSpec == UnitInit /\ [][UnitNext]_vars

(* ------------------------------ properties ----------------------------- *)

Stopped == pc \in {"done", "raised"}
TrainLabels == Column(split.X_train, "ACTIVITY")
NonNull(rows, name) == {i \in 1..Len(rows) : Column(rows, name)[i] # NULL}
AllLabelsKnown == \A i \in 1..Len(df) : df[i].ACTIVITY \in DOMAIN class_weights
StageMetrics(target) == {m \in metrics : m[1] = RunName(target)}

\* C1 (tracked variant, checked under Spec): for every family in
\* {LR, RF, LGBM}, when all activity labels are in the weight table and each
\* of SPEED and INCLINE has a non-null row in both train and test, main does
\* not raise, and once it is done every stage has recorded its metrics: the
\* run reaches successful completion.
C1_Premise ==
    /\ variant = "tracked"
    /\ model \in Families
    /\ AllLabelsKnown
    /\ pc \notin {"split", "mkdir"}
    /\ \A i \in 1..Len(uploads) : uploads[i][3]
    /\ \A name \in {"SPEED", "INCLINE"} :
          NonNull(split.X_train, name) # {} /\ NonNull(split.X_test, name) # {}
C1_TrackedRunCompletes ==
    C1_Premise =>
        /\ pc # "raised"
        /\ pc = "done" =>
              /\ parent_run = "FINISHED"
              /\ \A target \in {"activity", "speed", "incline"} : StageMetrics(target) # {}

\* C2 (checked under UnitSpec): whenever classifier or regressor, in either
\* variant and for any family, gets as far as the estimator constructor, the
\* effective hyperparameters hold every caller-supplied key with the
\* caller's value, and n_jobs, random_state, n_estimators and max_depth carry
\* the defaults -1, 42, 10 and 10 only where the caller did not supply them.
DefaultValue ==
    [k \in {"n_jobs", "random_state", "n_estimators", "max_depth"} |->
        CASE k = "n_jobs" -> -1 [] k = "random_state" -> 42 [] OTHER -> 10]
C2_CallerParamsKept ==
    (/\ call.fn \in {"classifier", "regressor"}
     /\ call.ret.status \notin {"KeyError:label", "KeyError:model"})
    => /\ \A k \in DOMAIN call.params :
             k \in DOMAIN call.ret.params /\ call.ret.params[k] = call.params[k]
       /\ \A k \in (DOMAIN call.ret.params \cap DOMAIN DefaultValue) \ DOMAIN call.params :
             call.ret.params[k] = DefaultValue[k]
       /\ "n_jobs" \in DOMAIN call.ret.params
       /\ (call.fn = "regressor" /\ model = "RF") =>
             {"n_estimators", "max_depth"} \subseteq DOMAIN call.ret.params
\* the RF regressor called with an n_estimators override and no max_depth
C2_Witness ==
    /\ call.fn = "regressor"
    /\ variant = "remote"
    /\ model = "RF"
    /\ call.ret.status = "ok"
    /\ DOMAIN call.params = {"n_estimators"}
    /\ call.ret.params["n_estimators"] = 50
    /\ call.ret.params["max_depth"] = 10

\* C3 (checked under UnitSpec): for family LR, in both variants, classifier
\* called with no caller params and a non-empty column of training labels
\* that are all in the weight table does not fail and returns the one-vs-rest
\* model with every sub-estimator fitted with the sample weights.
C3_LinearClassifierFittedWithWeights ==
    (/\ call.fn = "classifier"
     /\ model = "LR"
     /\ call.params = EmptyParams
     /\ call.y_train # <<>>
     /\ \A i \in 1..Len(call.y_train) : call.y_train[i] \in DOMAIN class_weights)
    => /\ call.ret.status = "ok"
       /\ call.ret.fitted
       /\ call.ret.fit_weight = call.ret.sample_weight

\* C4 (checked under Spec): with a selector outside {LR, RF, LGBM} main, in
\* both variants, has no effect before it fails: the split is not collected
\* or scaled, no sample weight is computed, no run is opened, no parameter or
\* metric is recorded and no directory or file is created.
C4_UnknownFamilyFailsFirst ==
    model \notin Families =>
        /\ X_state = "lazy"
        /\ clf = NotCalled
        /\ parent_run = "none" /\ nested_run = "none" /\ run_events = <<>>
        /\ ~sink_params
        /\ metrics = {} /\ artifacts = {} /\ files = {}
        /\ pc # "done"

\* C5 (checked under Spec): if a training label handed to classifier by main
\* is outside the weight table {run, jump, walk} then, whatever the selector,
\* classifier fails with the unknown-label error before any estimator is
\* constructed or fitted, the error leaves main, and main records no metric,
\* confusion matrix, artifact, output file or model.
C5_UnknownLabelIsFatal ==
    (/\ clf # NotCalled
     /\ \E i \in 1..Len(TrainLabels) : TrainLabels[i] \notin DOMAIN class_weights)
    => /\ clf.status = "KeyError:label"
       /\ clf.constructed = None /\ ~clf.fit_called /\ ~clf.fitted
       /\ pc = "raised" /\ error = "KeyError:label"
       /\ metrics = {} /\ artifacts = {} /\ cm_labels = <<>>
       /\ files \subseteq {<<"output_dir">>}
\* a run of a supported family stopped by the label "standing" in its train rows
C5_Witness ==
    /\ model \in Families
    /\ clf.status = "KeyError:label"
    /\ \E i \in 1..Len(TrainLabels) : TrainLabels[i] = "standing"
    /\ pc = "raised"

\* C6 (checked under Spec): in a tracked run, when SPEED has no non-null row
\* in train or in test while INCLINE has one in both, and the speed stage
\* has failed on its empty row set (fit or predict on zero rows), then once
\* main has stopped the speed stage has recorded no metric and the
\* classification and incline stages have recorded theirs: the speed
\* stage's failure does not keep the incline stage from running.
C6_EmptyTargetFailsOnlyItsStage ==
    (/\ variant = "tracked"
     /\ model \in Families
     /\ clf.status = "ok"
     /\ Stopped
     /\ error \in {"ValueError:fit", "ValueError:predict"}
     /\ NonNull(split.X_train, "SPEED") = {} \/ NonNull(split.X_test, "SPEED") = {}
     /\ NonNull(split.X_train, "INCLINE") # {} /\ NonNull(split.X_test, "INCLINE") # {})
    => /\ StageMetrics("speed") = {}
       /\ StageMetrics("activity") # {}
       /\ <<"start", RunName("incline")>> \in Range(run_events)
       /\ StageMetrics("incline") # {}

\* C7 (checked under UnitSpec): whenever regressor reaches model.fit, the
\* rows fitted are exactly the train rows whose own label is non-null, in
\* source order and without repetition, and fit_y holds those rows' labels;
\* whenever it reaches model.predict the same holds of the test rows and the
\* test labels.  (X_train is rows 1..n, X_test rows n+1..n+m.)
ExactlyNonNullRows(X_filtered, y_filtered, X, y, offset) ==
    /\ Len(X_filtered) = Len(y_filtered)
    /\ Range(X_filtered) = {X[i] : i \in {j \in 1..Len(y) : y[j] # NULL}}
    /\ \A j, k \in 1..Len(X_filtered) : j < k => X_filtered[j] < X_filtered[k]
    /\ \A j \in 1..Len(X_filtered) : y_filtered[j] = y[X_filtered[j] - offset]
C7_RegressorFiltersOwnNulls ==
    call.fn = "regressor" =>
        /\ call.ret.fit_called =>
              ExactlyNonNullRows(call.ret.fit_X, call.ret.fit_y, call.X_train,
                                 call.y_train, 0)
        /\ call.ret.predict_called =>
              ExactlyNonNullRows(call.ret.pred_X, call.ret.y_test_filtered, call.X_test,
                                 call.y_test, Len(call.y_train))
\* a fitted and scored call whose train and test columns have nulls in
\* different places
C7_Witness ==
    /\ call.fn = "regressor"
    /\ call.ret.status = "ok"
    /\ call.y_train = <<"v1", NULL>>
    /\ call.y_test = <<NULL, "v2">>
    /\ call.ret.fit_X = <<1>> /\ call.ret.pred_X = <<4>>
    /\ call.ret.y_test_filtered = <<"v2">>

\* C8 (checked under UnitSpec): whenever classifier reaches a fit call, the
\* sample-weight vector it passes has one entry per training row, entry i is
\* the table weight of label i, and every entry is strictly positive.
C8_SampleWeightPerRow ==
    (call.fn = "classifier" /\ call.ret.fit_called) =>
        /\ Len(call.ret.fit_weight) = Len(call.y_train)
        /\ \A i \in 1..Len(call.y_train) :
              /\ call.y_train[i] \in DOMAIN class_weights
              /\ call.ret.fit_weight[i] = class_weights[call.y_train[i]]
              /\ call.ret.fit_weight[i][1] > 0 /\ call.ret.fit_weight[i][2] > 0
\* a fit on two rows with different labels
C8_Witness ==
    /\ call.fn = "classifier"
    /\ call.ret.status = "ok"
    /\ call.y_train = <<"jump", "walk">>
    /\ call.ret.fit_weight = << <<1000, 24>>, <<1000, 576>> >>

\* C9 (checked under UnitSpec): _feature_importances returns one entry per
\* feature, each feature mapped to its own importance, in non-increasing
\* order of value; and _regressor_script writes a feature-importance file
\* only for RF and LGBM, never for LR.
C9_ImportancesRankedForTreesOnly ==
    /\ call.fn = "_feature_importances" =>
          LET r == call.ret
              names == call.feature_names
          IN  /\ Len(r) = Len(names)
              /\ {r[i][1] : i \in 1..Len(r)} = Range(names)
              /\ \A i \in 1..Len(r) : \E j \in 1..Len(names) :
                    names[j] = r[i][1] /\ r[i][2] = call.feature_importances[j]
              /\ \A i, k \in 1..Len(r) : i < k => r[i][2] >= r[k][2]
    /\ call.fn = "_regressor_script" =>
          LET written == FeatureImportancesPath(variant, model, call.feature_name)
                             \in call.ret.files
          IN  /\ written => model \in {"RF", "LGBM"}
              /\ model = "LR" => ~written /\ call.ret.importances = <<>>
              /\ (call.ret.status = "ok" /\ model \in {"RF", "LGBM"}) => written
\* three importances given in neither ascending nor descending order
C9_Witness ==
    /\ call.fn = "_feature_importances"
    /\ call.feature_importances = <<1, 2, 0>>
    /\ call.ret = << <<"f2", 2>>, <<"f1", 1>>, <<"f3", 0>> >>

\* C10 (checked under Spec): the labels handed to the confusion-matrix
\* renderer are the labels of the ACTIVITY column of the full dataset, each
\* once, in the order of their first occurrence in the dataset.
FirstOccurrence(label) == CHOOSE i \in 1..Len(df) :
    df[i].ACTIVITY = label /\ \A j \in 1..(i - 1) : df[j].ACTIVITY # label
C10_ConfusionLabelsInSourceOrder ==
    cm_labels # <<>> =>
        /\ Range(cm_labels) = {df[i].ACTIVITY : i \in 1..Len(df)}
        /\ Len(cm_labels) = Cardinality(Range(cm_labels))
        /\ \A a, b \in 1..Len(cm_labels) :
              a < b => FirstOccurrence(cm_labels[a]) < FirstOccurrence(cm_labels[b])
\* "walk" comes before "run" in the data but after it alphabetically, and
\* "run" is in no train row
C10_Witness ==
    /\ cm_labels = <<"walk", "run">>
    /\ Column(split.X_train, "ACTIVITY") = <<"walk">>
    /\ LexRank["run"] < LexRank["walk"]

\* C11 (tracked variant, checked under Spec): a failed mlflow.log_artifact
\* call is not fatal to the run: once main has stopped, every failed upload
\* has been followed by another attempt at the same artifact, the failure is
\* not the exception that left main, and the speed and incline stages have
\* been started.
C11_UploadFailureNotFatal ==
    (/\ variant = "tracked"
     /\ Stopped
     /\ \E i \in 1..Len(uploads) : ~uploads[i][3])
    => /\ \A i \in 1..Len(uploads) :
             ~uploads[i][3] =>
                 \E j \in (i + 1)..Len(uploads) :
                    uploads[j][1] = uploads[i][1] /\ uploads[j][2] = uploads[i][2]
       /\ error # UploadError
       /\ \A target \in {"speed", "incline"} :
             <<"start", RunName(target)>> \in Range(run_events)

\* which score a recorded classification metric is: main's y1_score is the
\* accuracy, f1 the micro-averaged and f1_av the weighted F1
ScoreKind(key) ==
    CASE key \in {"score", "activity"} -> "accuracy"
      [] key = "f1_score" -> "f1_micro"
      [] OTHER -> "f1_weighted"
ActivityScope == IF variant = "tracked" THEN RunName("activity") ELSE "output.score"
ActivityScores == {ScoreKind(m[2]) : m \in {x \in metrics : x[1] = ActivityScope}}
\* the confusion matrix has been rendered and, in the tracked variant, uploaded
ClassificationCompleted ==
    /\ cm_labels # <<>>
    /\ \A i \in 1..Len(uploads) : uploads[i][1] = RunName("activity") => uploads[i][3]

\* C12 as stated (checked under Spec): in both sink variants, once the
\* classification stage has completed the sink holds the accuracy, the
\* micro-averaged F1 and the weighted F1 of the activity target.
C12_ThreeScoresInBothSinks ==
    ClassificationCompleted => ActivityScores = {"accuracy", "f1_micro", "f1_weighted"}

\* C12 as amended (checked under Spec): once the classification stage has
\* completed, the tracked sink holds the accuracy, the micro-averaged F1 and
\* the weighted F1 of the activity target, and the local sink holds the
\* accuracy and the weighted F1 only.
C12_ScoresPerSink ==
    ClassificationCompleted =>
        ActivityScores = IF variant = "tracked"
                         THEN {"accuracy", "f1_micro", "f1_weighted"}
                         ELSE {"accuracy", "f1_weighted"}
\* a local-sink run that has finished with its two scores
C12_Witness ==
    /\ variant = "remote"
    /\ pc = "done"
    /\ ClassificationCompleted
    /\ {m[2] : m \in metrics} = {"activity", "activity_weighted"}

\* C13 (tracked variant, checked under Spec): at every moment at most one
\* nested run is open, and only inside the single open parent run; nested
\* runs start in the order activity classifier, speed regressor, incline
\* regressor; and once main has returned or raised no run is open.
NestedOrder == <<RunName("activity"), RunName("speed"), RunName("incline")>>
Count(events, kind, names) ==
    Cardinality({i \in 1..Len(events) : events[i][1] = kind /\ events[i][2] \in names})
OpenAfter(events, names) == Count(events, "start", names) - Count(events, "end", names)
C13_RunsNestAndClose ==
    variant = "tracked" =>
        LET nested == Range(NestedOrder)
            starts == SelectSeq(run_events, LAMBDA e : e[1] = "start" /\ e[2] \in nested)
        IN  /\ \A k \in 0..Len(run_events) :
                  LET prefix == SubSeq(run_events, 1, k)
                  IN  /\ OpenAfter(prefix, nested) \in {0, 1}
                      /\ OpenAfter(prefix, {"parent"}) \in {0, 1}
                      /\ OpenAfter(prefix, nested) = 1 => OpenAfter(prefix, {"parent"}) = 1
            /\ Count(run_events, "start", {"parent"}) <= 1
            /\ Len(starts) <= Len(NestedOrder)
            /\ \A i \in 1..Len(starts) : starts[i][2] = NestedOrder[i]
            /\ (nested_run # "none") = (OpenAfter(run_events, nested) = 1)
            /\ nested_run # "none" => nested_run = starts[Len(starts)][2]
            /\ (parent_run = "open") = (OpenAfter(run_events, {"parent"}) = 1)
            /\ Stopped => nested_run = "none" /\ parent_run # "open"
\* an exception raised in the speed stage, the second nested run
C13_Witness ==
    /\ pc = "raised"
    /\ parent_run = "FAILED"
    /\ run_events = << <<"start", "parent">>,
                       <<"start", "activity classifier">>, <<"end", "activity classifier">>,
                       <<"start", "speed regressor">>, <<"end", "speed regressor">>,
                       <<"end", "parent">> >>

\* C14 (checked under UnitSpec): regressor called with no caller params
\* passes class_weight only to a constructor that accepts it, so building
\* the regressor succeeds for LR, RF and LGBM.
C14_ClassWeightOnlyWhereSupported ==
    (/\ call.fn = "regressor"
     /\ model \in Families
     /\ call.params = EmptyParams)
    => /\ "class_weight" \in DOMAIN call.ret.params =>
              "class_weight" \in AcceptedParams("regress", model)
       /\ call.ret.status # "TypeError:params"

====
